---------------------------- MODULE Spec2Model ----------------------------
(***************************************************************************)
(* The EV population dashboard: load_and_process_data and                  *)
(* generate_summary_stats (utils/data_processor.py), the coordinate        *)
(* extraction of plot_interactive_geographic_heatmap                       *)
(* (utils/visualizations.py) and the adoption insights of main.py.         *)
(*                                                                         *)
(* A table (pandas DataFrame) is a record                                  *)
(*     [columns |-> sequence of column names,                              *)
(*      len     |-> number of rows,                                        *)
(*      data    |-> function from column name to the sequence of cells].   *)
(* A cell is NaN, Num(h) (a number, kept in halves so that the median of   *)
(* an even number of integers is exact: Num(5) is 2.5), Str(s) (a Python   *)
(* str) or Txt(cs) (a str kept as its sequence of characters, used for the *)
(* geometry text the regular expression reads).                            *)
(***************************************************************************)
EXTENDS Integers, Sequences, FiniteSets, TLC

VARIABLES
    source,     \* the table pd.read_csv returns for the input file
    df,         \* the table load_and_process_data returned, or None
    error,      \* the exception that stopped the run, or None
    warnings,   \* the st.warning messages emitted so far
    summary,    \* the dict generate_summary_stats returned, or None
    heatmap,    \* the result of plot_interactive_geographic_heatmap, or None
    bounds,     \* the bounds of the sidebar sliders, or None
    selection,  \* the values of the three filter widgets in this run, or None
    filtered_df,\* the rows of df the filters keep, or None
    insights,   \* what the "EV Adoption Trends" tab computed, or None
    pc          \* where the run of main.py is

vars == <<source, df, error, warnings, summary, heatmap, bounds, selection,
          filtered_df, insights, pc>>

-----------------------------------------------------------------------------
(* Cells *)

None == [none |-> TRUE]

NaN == [nan |-> TRUE]

Num(h) == [num |-> h]

Str(s) == [str |-> s]

Txt(cs) == [txt |-> cs]

isna(c) == c = NaN

IsNum(c) == DOMAIN c = {"num"}

\* The integer n as a number (in halves).
Whole(n) == Num(2 * n)

Range(s) == {s[i] : i \in 1..Len(s)}

-----------------------------------------------------------------------------
(* Tables *)

HasColumn(t, c) == c \in Range(t.columns)

\* df.rename(columns={old: new}, inplace=True)
Rename(t, old, new) ==
    LET cols == [i \in 1..Len(t.columns) |->
                    IF t.columns[i] = old THEN new ELSE t.columns[i]]
    IN  [columns |-> cols,
         len     |-> t.len,
         data    |-> [c \in Range(cols) |->
                        IF c = new THEN t.data[old] ELSE t.data[c]]]

\* df[c] = cells: replaces the column c, or appends it as the last column.
SetColumn(t, c, cells) ==
    LET cols == IF HasColumn(t, c) THEN t.columns ELSE Append(t.columns, c)
    IN  [columns |-> cols,
         len     |-> t.len,
         data    |-> [k \in Range(cols) |-> IF k = c THEN cells ELSE t.data[k]]]

\* A column holding the same scalar in every row.
Broadcast(t, v) == [i \in 1..t.len |-> v]

-----------------------------------------------------------------------------
(* Series operations *)

\* The number of entries of the sequence s that satisfy Test.
CountIf(s, Test(_)) == Cardinality({i \in 1..Len(s) : Test(s[i])})

\* The numbers (in halves) of the cells of a column that are not NaN.
Values(cells) ==
    LET keep == SelectSeq(cells, LAMBDA c : ~isna(c))
    IN  [i \in 1..Len(keep) |-> keep[i].num]

\* The integers of s in ascending order.
Sorted(s) ==
    [i \in 1..Len(s) |->
        CHOOSE v \in Range(s) :
            /\ CountIf(s, LAMBDA x : x < v) < i
            /\ i <= CountIf(s, LAMBDA x : x <= v)]

\* Series.median(): NaN cells are skipped; the middle value, or the mean of
\* the two middle values; NaN when nothing is left.
median(cells) ==
    LET v == Sorted(Values(cells))
        n == Len(v)
    IN  IF n = 0 THEN NaN
        ELSE IF n % 2 = 1 THEN Num(v[(n + 1) \div 2])
        ELSE Num((v[n \div 2] + v[n \div 2 + 1]) \div 2)

\* Series.min() and Series.max(): NaN cells are skipped; NaN when nothing is left.
min(cells) ==
    LET v == Values(cells)
    IN  IF Len(v) = 0 THEN NaN
        ELSE Num(CHOOSE x \in Range(v) : \A y \in Range(v) : x <= y)

max(cells) ==
    LET v == Values(cells)
    IN  IF Len(v) = 0 THEN NaN
        ELSE Num(CHOOSE x \in Range(v) : \A y \in Range(v) : y <= x)

\* pd.to_numeric(series, errors='coerce'): a number stays, anything that does
\* not parse as a number becomes NaN.
to_numeric(cells) ==
    [i \in 1..Len(cells) |-> IF IsNum(cells[i]) THEN cells[i] ELSE NaN]

\* A variant of fillna that drops the NaN cells when there is nothing to fill
\* them with (dropna).
fillna_or_drop(cells, value) ==
    IF isna(value) THEN SelectSeq(cells, LAMBDA c : ~isna(c))
    ELSE [i \in 1..Len(cells) |-> IF isna(cells[i]) THEN value ELSE cells[i]]

\* Series.fillna(value): every NaN cell becomes value (fillna(NaN) changes nothing).
fillna(cells, value) ==
    [i \in 1..Len(cells) |-> IF isna(cells[i]) THEN value ELSE cells[i]]

\* Series.astype(str): str(x) of every cell; str(nan) is 'nan', a str is itself
\* (the Make and Model cells of the inputs are text or missing).
astype_str(cells) ==
    [i \in 1..Len(cells) |-> IF isna(cells[i]) THEN Str("nan") ELSE cells[i]]

-----------------------------------------------------------------------------
(* load_and_process_data *)

\* The dict column_mapping, in insertion order.
column_mapping ==
    << <<"Vehicle Make", "Make">>,
       <<"Vehicle Model", "Model">>,
       <<"Vehicle Year", "Model Year">>,
       <<"Electric Vehicle Range", "Electric Range">>,
       <<"Electric Vehicle Type", "Electric Vehicle Type">>,
       <<"Clean Alternative Fuel Vehicle Eligibility", "CAFV Eligibility">>,
       <<"Vehicle Location", "Location">>,
       <<"Vehicle VIN", "VIN (1-10)">>,
       <<"DOL Vehicle ID", "DOL Vehicle ID">>,
       <<"Legislative District", "Legislative District">> >>

required_columns == <<"Make", "Model", "Model Year">>

geo_columns == <<"County", "City", "State", "Postal Code">>

\* 'range' in col.lower(), on the column names the inputs use.
HasRange(col) ==
    col \in {"Electric Range", "Electric Vehicle Range", "Range Miles", "EPA range"}

\* 'type' in col.lower() or 'category' in col.lower(), on the column names the
\* inputs use.
HasTypeOrCategory(col) ==
    col \in {"Electric Vehicle Type", "Vehicle Type", "Vehicle Category"}

\* A variant of the loop that renames a column that is there under its
\* alternate name whether or not the canonical name is there.
RECURSIVE ApplyColumnMappingAlwaysFrom(_, _)
ApplyColumnMappingAlwaysFrom(t, k) ==
    IF k > Len(column_mapping) THEN t
    ELSE IF HasColumn(t, column_mapping[k][1])
         THEN ApplyColumnMappingAlwaysFrom(
                  Rename(t, column_mapping[k][1], column_mapping[k][2]), k + 1)
         ELSE ApplyColumnMappingAlwaysFrom(t, k + 1)

\* The loop over column_mapping.items(), from its k-th entry on.
RECURSIVE ApplyColumnMappingFrom(_, _)
ApplyColumnMappingFrom(t, k) ==
    IF k > Len(column_mapping) THEN t
    ELSE LET old_col == column_mapping[k][1]
             new_col == column_mapping[k][2]
         IN  IF HasColumn(t, old_col) /\ ~HasColumn(t, new_col)
             THEN ApplyColumnMappingFrom(Rename(t, old_col, new_col), k + 1)
             ELSE ApplyColumnMappingFrom(t, k + 1)

ApplyColumnMapping(t) == ApplyColumnMappingFrom(t, 1)

\* A variant of missing_columns that reports the first missing column only.
missing_columns_first(t) ==
    LET m == SelectSeq(required_columns, LAMBDA col : ~HasColumn(t, col))
    IN  SubSeq(m, 1, IF Len(m) > 1 THEN 1 ELSE Len(m))

\* [col for col in required_columns if col not in df.columns]
missing_columns(t) == SelectSeq(required_columns, LAMBDA col : ~HasColumn(t, col))

\* ', '.join(names)
RECURSIVE Join(_)
Join(names) ==
    IF Len(names) = 0 THEN ""
    ELSE IF Len(names) = 1 THEN names[1]
    ELSE names[1] \o ", " \o Join(Tail(names))

\* ValueError(f"Missing required columns: {', '.join(missing_columns)}")
MissingColumnsError(missing) ==
    [type    |-> "ValueError",
     missing |-> missing,
     message |-> "Missing required columns: " \o Join(missing)]

RangeWarning == "Electric Range column not found. Creating a placeholder column."

TypeWarning == "Electric Vehicle Type column not found. Creating a placeholder column."

CafvWarning == "CAFV Eligibility column not found. Creating a placeholder column."

\* A step of the pipeline works on s = [df, warnings].

\* A variant of EnsureElectricRange that renames the last column named as a
\* range instead of the first.
EnsureElectricRangeLast(s) ==
    IF HasColumn(s.df, "Electric Range") THEN s
    ELSE LET range_columns == SelectSeq(s.df.columns, HasRange)
         IN  IF Len(range_columns) > 0
             THEN [s EXCEPT !.df = Rename(s.df, range_columns[Len(range_columns)],
                                          "Electric Range")]
             ELSE [df       |-> SetColumn(s.df, "Electric Range", Broadcast(s.df, NaN)),
                   warnings |-> Append(s.warnings, RangeWarning)]

\* "Ensure electric range column exists, create if it doesn't"
EnsureElectricRange(s) ==
    IF HasColumn(s.df, "Electric Range") THEN s
    ELSE LET range_columns == SelectSeq(s.df.columns, HasRange)
         IN  IF Len(range_columns) > 0
             THEN [s EXCEPT !.df = Rename(s.df, range_columns[1], "Electric Range")]
             ELSE [df       |-> SetColumn(s.df, "Electric Range", Broadcast(s.df, NaN)),
                   warnings |-> Append(s.warnings, RangeWarning)]

\* df[col] = pd.to_numeric(df[col], errors='coerce') for Model Year and Electric Range
CoerceNumeric(t) ==
    LET t1 == SetColumn(t, "Model Year", to_numeric(t.data["Model Year"]))
    IN  SetColumn(t1, "Electric Range", to_numeric(t1.data["Electric Range"]))

\* "Fill missing numeric values with appropriate defaults"
FillMissing(t) ==
    LET model_year_median     == median(t.data["Model Year"])
        electric_range_median == median(t.data["Electric Range"])
        t1 == SetColumn(t, "Model Year", fillna(t.data["Model Year"], model_year_median))
    IN  SetColumn(t1, "Electric Range",
                  fillna(t1.data["Electric Range"], electric_range_median))

\* "Ensure Make and Model are strings"
MakeModelToStr(t) ==
    LET t1 == SetColumn(t, "Make", astype_str(t.data["Make"]))
    IN  SetColumn(t1, "Model", astype_str(t1.data["Model"]))

\* "Ensure EV type column exists"
EnsureEVType(s) ==
    IF HasColumn(s.df, "Electric Vehicle Type") THEN s
    ELSE LET type_columns == SelectSeq(s.df.columns, HasTypeOrCategory)
         IN  IF Len(type_columns) > 0
             THEN [s EXCEPT !.df = Rename(s.df, type_columns[1], "Electric Vehicle Type")]
             ELSE [df       |-> SetColumn(s.df, "Electric Vehicle Type",
                                          Broadcast(s.df, Str("Unknown"))),
                   warnings |-> Append(s.warnings, TypeWarning)]

\* 'eligibility' in col.lower(), on the column names the inputs use.
HasEligibility(col) ==
    col \in {"CAFV Eligibility", "Clean Alternative Fuel Vehicle Eligibility",
             "CAFV Eligibility Status"}

\* A variant of EnsureCafv that first looks for a column named as an
\* eligibility, as the steps for the range and the type do.
EnsureCafvBySearch(s) ==
    IF HasColumn(s.df, "CAFV Eligibility") THEN s
    ELSE LET cafv_columns == SelectSeq(s.df.columns, HasEligibility)
         IN  IF Len(cafv_columns) > 0
             THEN [s EXCEPT !.df = Rename(s.df, cafv_columns[1], "CAFV Eligibility")]
             ELSE [df       |-> SetColumn(s.df, "CAFV Eligibility",
                                          Broadcast(s.df, Str("Unknown"))),
                   warnings |-> Append(s.warnings, CafvWarning)]

\* "Ensure CAFV eligibility column exists"
EnsureCafv(s) ==
    IF HasColumn(s.df, "CAFV Eligibility") THEN s
    ELSE [df       |-> SetColumn(s.df, "CAFV Eligibility", Broadcast(s.df, Str("Unknown"))),
          warnings |-> Append(s.warnings, CafvWarning)]

\* A variant of EnsureGeo that fills the columns it creates with NaN.
RECURSIVE EnsureGeoNaNFrom(_, _)
EnsureGeoNaNFrom(t, k) ==
    IF k > Len(geo_columns) THEN t
    ELSE IF HasColumn(t, geo_columns[k]) THEN EnsureGeoNaNFrom(t, k + 1)
    ELSE EnsureGeoNaNFrom(SetColumn(t, geo_columns[k], Broadcast(t, NaN)), k + 1)

EnsureGeoNaN(t) == EnsureGeoNaNFrom(t, 1)

\* "Handle geographical data": the loop over geo_columns, from its k-th entry on.
RECURSIVE EnsureGeoFrom(_, _)
EnsureGeoFrom(t, k) ==
    IF k > Len(geo_columns) THEN t
    ELSE IF HasColumn(t, geo_columns[k]) THEN EnsureGeoFrom(t, k + 1)
    ELSE EnsureGeoFrom(SetColumn(t, geo_columns[k], Broadcast(t, Str("Unknown"))), k + 1)

EnsureGeo(t) == EnsureGeoFrom(t, 1)

\* load_and_process_data(file), file being read as the table `file`: the
\* outcome is [raised, error, df, warnings].
load_and_process_data(file) ==
    LET df1     == ApplyColumnMapping(file)
        missing == missing_columns(df1)
    IN  IF Len(missing) > 0
        THEN [raised |-> TRUE, error |-> MissingColumnsError(missing),
              df |-> None, warnings |-> <<>>]
        ELSE LET s2 == EnsureElectricRange([df |-> df1, warnings |-> <<>>])
                 df3 == MakeModelToStr(FillMissing(CoerceNumeric(s2.df)))
                 s4 == EnsureCafv(EnsureEVType([df |-> df3, warnings |-> s2.warnings]))
             IN  [raised |-> FALSE, error |-> None,
                  df |-> EnsureGeo(s4.df), warnings |-> s4.warnings]

-----------------------------------------------------------------------------
(* generate_summary_stats *)

\* Series.unique() without the NaN cells: the distinct values in order of
\* first appearance.
RECURSIVE unique(_)
unique(cells) ==
    IF Len(cells) = 0 THEN <<>>
    ELSE LET n    == Len(cells)
             init == unique(SubSeq(cells, 1, n - 1))
         IN  IF isna(cells[n]) \/ cells[n] \in Range(init) THEN init
             ELSE Append(init, cells[n])

\* Series.nunique(): NaN is not counted.
nunique(cells) == Len(unique(cells))

\* Series.value_counts(): one entry [value, count] for each distinct value that
\* is not NaN, by descending count; values of equal count stay in their order
\* of first appearance.
value_counts(cells) ==
    LET keys   == unique(cells)
        cnt(k) == CountIf(cells, LAMBDA c : c = keys[k])
        rank(k) == Cardinality({j \in 1..Len(keys) :
                                   cnt(j) > cnt(k) \/ (cnt(j) = cnt(k) /\ j < k)}) + 1
    IN  [i \in 1..Len(keys) |->
            LET k == CHOOSE j \in 1..Len(keys) : rank(j) = i
            IN  [value |-> keys[k], count |-> cnt(k)]]

\* A variant of head that keeps every entry.
head_all(s, n) == s

\* Series.head(n)
head(s, n) == SubSeq(s, 1, IF Len(s) < n THEN Len(s) ELSE n)

\* The number of entries head(5) keeps.
TopN == 5

RECURSIVE SumSeq(_)
SumSeq(v) == IF Len(v) = 0 THEN 0 ELSE v[1] + SumSeq(Tail(v))

\* Series.mean(): NaN cells are skipped; the quotient total / count is kept as
\* the pair (total in halves); NaN when nothing is left.
mean(cells) ==
    LET v == Values(cells)
    IN  IF Len(v) = 0 THEN NaN ELSE [total |-> SumSeq(v), count |-> Len(v)]

\* A variant of OptionalStats that sets top_states whenever the State column
\* is there.
OptionalStatsWithStates(t) ==
    [ev_type_distribution          |-> value_counts(t.data["Electric Vehicle Type"]),
     cafv_eligibility_distribution |-> value_counts(t.data["CAFV Eligibility"]),
     top_counties |-> head(value_counts(t.data["County"]), TopN),
     top_cities   |-> head(value_counts(t.data["City"]), TopN),
     top_states   |-> head(value_counts(t.data["State"]), TopN)]

\* The entries of the dict that are set only when their column is there.
OptionalStats(t) ==
    (IF HasColumn(t, "Electric Vehicle Type")
     THEN [ev_type_distribution |-> value_counts(t.data["Electric Vehicle Type"])]
     ELSE <<>>)
    @@
    (IF HasColumn(t, "CAFV Eligibility")
     THEN [cafv_eligibility_distribution |-> value_counts(t.data["CAFV Eligibility"])]
     ELSE <<>>)
    @@
    (IF HasColumn(t, "County")
     THEN [top_counties |-> head(value_counts(t.data["County"]), TopN)]
     ELSE <<>>)
    @@
    (IF HasColumn(t, "City")
     THEN [top_cities |-> head(value_counts(t.data["City"]), TopN)]
     ELSE <<>>)
    @@
    (IF HasColumn(t, "State") /\ nunique(t.data["State"]) > 1
     THEN [top_states |-> head(value_counts(t.data["State"]), TopN)]
     ELSE <<>>)

\* The dict generate_summary_stats builds for a table with a most common make.
SummaryDict(t, most_common_make) ==
    [total_evs              |-> t.len,
     unique_makes           |-> nunique(t.data["Make"]),
     unique_models          |-> nunique(t.data["Model"]),
     avg_electric_range     |-> mean(t.data["Electric Range"]),
     most_common_make       |-> most_common_make,
     most_common_make_count |-> CountIf(t.data["Make"], LAMBDA c : c = most_common_make),
     min_year               |-> min(t.data["Model Year"]),
     max_year               |-> max(t.data["Model Year"]),
     median_year            |-> median(t.data["Model Year"])]
    @@ OptionalStats(t)

IndexError == [type |-> "IndexError",
               message |-> "index 0 is out of bounds for axis 0 with size 0"]

\* The rows of t whose cell in column col is v: df[df[col] == v].
RowsWhere(t, col, v) ==
    LET keep == {i \in 1..t.len : t.data[col][i] = v}
        pick(cells) == [k \in 1..Cardinality(keep) |->
                          cells[CHOOSE i \in keep :
                                   Cardinality({j \in keep : j < i}) = k - 1]]
    IN  [columns |-> t.columns,
         len     |-> Cardinality(keep),
         data    |-> [c \in Range(t.columns) |-> pick(t.data[c])]]

\* A variant of generate_summary_stats that keeps the rows of the most common
\* make in the table it was given (the selection of line 127 done in place).
generate_summary_stats_in_place(t) ==
    LET make_counts == value_counts(t.data["Make"])
    IN  IF Len(make_counts) = 0
        THEN [raised |-> TRUE, error |-> IndexError, summary |-> None, df |-> t]
        ELSE [raised |-> FALSE, error |-> None,
              summary |-> SummaryDict(t, make_counts[1].value),
              df |-> RowsWhere(t, "Make", make_counts[1].value)]

\* generate_summary_stats(df): the outcome is [raised, error, summary, df], df
\* being the table as the call leaves it (it is only read);
\* value_counts().index[0] raises IndexError on a Series without entries.
generate_summary_stats(t) ==
    LET make_counts == value_counts(t.data["Make"])
    IN  IF Len(make_counts) = 0
        THEN [raised |-> TRUE, error |-> IndexError, summary |-> None, df |-> t]
        ELSE [raised |-> FALSE, error |-> None,
              summary |-> SummaryDict(t, make_counts[1].value),
              df |-> t]

-----------------------------------------------------------------------------
(* plot_interactive_geographic_heatmap *)

Digits == {"0", "1", "2", "5"}

DigitValue(ch) == CASE ch = "0" -> 0 [] ch = "1" -> 1 [] ch = "2" -> 2 [] ch = "5" -> 5

\* The literal text the pattern starts with: POINT \(
PointLiteral == <<"P", "O", "I", "N", "T", " ", "(">>

\* The first position from i on that holds no digit (\d* from i ends before it).
RECURSIVE DigitsEnd(_, _)
DigitsEnd(cs, i) ==
    IF i <= Len(cs) /\ cs[i] \in Digits THEN DigitsEnd(cs, i + 1) ELSE i

\* -?\d+\.?\d* matched at position i: the position after the match, or 0 when
\* it does not match there. Each part takes all it can, and no shorter choice
\* can make the rest of the pattern match.
NumberEnd(cs, i) ==
    LET a == IF i <= Len(cs) /\ cs[i] = "-" THEN i + 1 ELSE i
        b == DigitsEnd(cs, a)
        c == IF b <= Len(cs) /\ cs[b] = "." THEN b + 1 ELSE b
    IN  IF b = a THEN 0 ELSE DigitsEnd(cs, c)

\* The pattern POINT \((-?\d+\.?\d*) (-?\d+\.?\d*) matched at position p.
MatchesAt(cs, p) ==
    LET n  == Len(PointLiteral)
        e1 == NumberEnd(cs, p + n)
    IN  /\ p + n - 1 <= Len(cs)
        /\ SubSeq(cs, p, p + n - 1) = PointLiteral
        /\ e1 # 0
        /\ e1 <= Len(cs)
        /\ cs[e1] = " "
        /\ NumberEnd(cs, e1 + 1) # 0

\* float(text) of a matched group, as sign * digits / 10^scale without the
\* trailing zeros of the fraction.
RECURSIVE DigitsValue(_)
DigitsValue(ds) ==
    IF Len(ds) = 0 THEN 0
    ELSE 10 * DigitsValue(SubSeq(ds, 1, Len(ds) - 1)) + DigitValue(ds[Len(ds)])

RECURSIVE Normal(_)
Normal(f) ==
    IF f.scale > 0 /\ f.digits % 10 = 0
    THEN Normal([f EXCEPT !.digits = f.digits \div 10, !.scale = f.scale - 1])
    ELSE f

float(text) ==
    LET neg    == text[1] = "-"
        body   == IF neg THEN Tail(text) ELSE text
        digits == SelectSeq(body, LAMBDA ch : ch # ".")
        dots   == {k \in 1..Len(body) : body[k] = "."}
        scale  == IF dots = {} THEN 0 ELSE Len(body) - (CHOOSE k \in dots : TRUE)
        f      == Normal([digits |-> DigitsValue(digits), scale |-> scale])
    IN  [negative |-> neg /\ f.digits # 0, digits |-> f.digits, scale |-> f.scale]

\* A variant of re_search that matches at the start of the text only (re.match).
re_match(cs) ==
    IF ~MatchesAt(cs, 1) THEN None
    ELSE LET s1 == 1 + Len(PointLiteral)
             e1 == NumberEnd(cs, s1)
             e2 == NumberEnd(cs, e1 + 1)
         IN  [group1 |-> SubSeq(cs, s1, e1 - 1),
              group2 |-> SubSeq(cs, e1 + 1, e2 - 1)]

\* re.search(pattern, str(loc)): the groups of the leftmost match, or None.
re_search(cs) ==
    LET starts == {p \in 1..Len(cs) : MatchesAt(cs, p)}
    IN  IF starts = {} THEN None
        ELSE LET p  == CHOOSE q \in starts : \A r \in starts : q <= r
                 s1 == p + Len(PointLiteral)
                 e1 == NumberEnd(cs, s1)
                 e2 == NumberEnd(cs, e1 + 1)
             IN  [group1 |-> SubSeq(cs, s1, e1 - 1),
                  group2 |-> SubSeq(cs, e1 + 1, e2 - 1)]

\* The loop over df['Vehicle Location'] from row i on: coordinates_data.
RECURSIVE ExtractCoordinates(_, _)
ExtractCoordinates(locs, i) ==
    IF i > Len(locs) THEN <<>>
    ELSE LET rest == ExtractCoordinates(locs, i + 1)
         IN  IF isna(locs[i]) THEN rest
             ELSE LET match == re_search(locs[i].txt)
                  IN  IF match = None THEN rest
                      ELSE <<[lon |-> float(match.group1),
                              lat |-> float(match.group2)]>> \o rest

\* plot_ev_geographical_distribution(df): the level the bar chart is drawn for,
\* or the dummy chart.
plot_ev_geographical_distribution(t) ==
    LET good(col) == HasColumn(t, col) /\ nunique(t.data[col]) > 1
    IN  [chart |-> "geographical_distribution",
         geo_level |-> IF good("County") THEN "County"
                       ELSE IF good("City") THEN "City"
                       ELSE IF good("State") THEN "State"
                       ELSE IF good("Postal Code") THEN "Postal Code"
                       ELSE "dummy"]

\* A variant of plot_interactive_geographic_heatmap that reads the geometry
\* from the column Location when there is no column Vehicle Location.
plot_interactive_geographic_heatmap_of_location(t) ==
    LET col == IF HasColumn(t, "Vehicle Location") THEN "Vehicle Location" ELSE "Location"
    IN  IF ~HasColumn(t, col) THEN plot_ev_geographical_distribution(t)
        ELSE LET coordinates_data == ExtractCoordinates(t.data[col], 1)
             IN  IF Len(coordinates_data) = 0 THEN plot_ev_geographical_distribution(t)
                 ELSE [chart |-> "density_mapbox", coords_df |-> coordinates_data]

\* plot_interactive_geographic_heatmap(df): the density map of the pairs read
\* from Vehicle Location, or the chart of plot_ev_geographical_distribution.
plot_interactive_geographic_heatmap(t) ==
    IF ~HasColumn(t, "Vehicle Location") THEN plot_ev_geographical_distribution(t)
    ELSE LET coordinates_data == ExtractCoordinates(t.data["Vehicle Location"], 1)
         IN  IF Len(coordinates_data) = 0 THEN plot_ev_geographical_distribution(t)
             ELSE [chart |-> "density_mapbox", coords_df |-> coordinates_data]

-----------------------------------------------------------------------------
(* main.py: sidebar bounds and the "EV Adoption Trends" tab *)

\* int(x) of a number in halves (the numbers here are not negative).
int(h) == h - (h % 2)

\* The years the 5-Year CAGR looks back from max_year.
CagrYears == 5

\* The set of integers S in ascending order.
SetToSeq(S) ==
    [i \in 1..Cardinality(S) |-> CHOOSE v \in S : Cardinality({w \in S : w < v}) = i - 1]

\* A variant of yearly_counts whose growth compares a year with the calendar
\* year before it, and is NaN when that year has no row.
yearly_counts_by_calendar(t) ==
    LET yrs    == t.data["Model Year"]
        keys   == SetToSeq(Range(Values(yrs)))
        cnt(y) == CountIf(yrs, LAMBDA c : c = Num(y))
    IN  [k \in 1..Len(keys) |->
            [year  |-> keys[k],
             count |-> cnt(keys[k]),
             yoy   |-> IF cnt(keys[k] - 2) = 0 THEN NaN
                       ELSE [num |-> 100 * (cnt(keys[k]) - cnt(keys[k] - 2)),
                             den |-> cnt(keys[k] - 2)]]]

\* df.groupby('Model Year').size().reset_index(name='Count') with the column
\* YoY_Growth = Count.pct_change() * 100: one row per distinct year that is
\* not NaN, in ascending order of the year. A growth is kept as the fraction
\* num / den.
yearly_counts(t) ==
    LET yrs    == t.data["Model Year"]
        keys   == SetToSeq(Range(Values(yrs)))
        cnt(k) == CountIf(yrs, LAMBDA c : c = Num(keys[k]))
    IN  [k \in 1..Len(keys) |->
            [year  |-> keys[k],
             count |-> cnt(k),
             yoy   |-> IF k = 1 THEN NaN
                       ELSE [num |-> 100 * (cnt(k) - cnt(k - 1)), den |-> cnt(k - 1)]]]

\* The slider bounds of the sidebar: int() of a NaN raises ValueError.
slider_bounds(t) ==
    LET lo_year  == min(t.data["Model Year"])
        hi_year  == max(t.data["Model Year"])
        lo_range == min(t.data["Electric Range"])
        hi_range == max(t.data["Electric Range"])
    IN  IF isna(lo_year) \/ isna(hi_year) \/ isna(lo_range) \/ isna(hi_range)
        THEN [raised |-> TRUE,
              error  |-> [type |-> "ValueError",
                          message |-> "cannot convert float NaN to integer"],
              bounds |-> None]
        ELSE [raised |-> FALSE, error |-> None,
              bounds |-> [min_year  |-> int(lo_year.num),  max_year  |-> int(hi_year.num),
                          min_range |-> int(lo_range.num), max_range |-> int(hi_range.num)]]

\* A variant of last_5_years that keeps five calendar years: the rows with
\* Model Year >= max_year - 4.
last_5_calendar_years(t, max_year) ==
    SelectSeq(yearly_counts(t), LAMBDA r : r.year >= max_year - 2 * (CagrYears - 1))

\* A variant of last_5_years without the bound on the year.
all_years(t, max_year) == yearly_counts(t)

\* The rows of yearly_counts with Model Year >= max_year - 5.
last_5_years(t, max_year) ==
    SelectSeq(yearly_counts(t), LAMBDA r : r.year >= max_year - 2 * CagrYears)

\* insight_tab1: the growth of the last complete year and, when it is
\* computed, the 5-Year CAGR, kept as the three numbers its formula reads.
adoption_insights(t, max_year) ==
    LET yc      == yearly_counts(t)
        complete == IF Num(max_year) = max(t.data["Model Year"])
                    THEN max_year - 2 ELSE max_year
        rows    == SelectSeq(yc, LAMBDA r : r.year = complete)
        window  == last_5_years(t, max_year)
        n       == Len(window)
    IN  [yearly_counts      |-> yc,
         max_complete_year  |-> complete,
         latest_year_growth |-> IF Len(rows) > 0 THEN rows[1].yoy ELSE [num |-> 0, den |-> 1]]
        @@
        (IF n >= 2 /\ window[n].year - window[1].year > 0 /\ window[1].count > 0
         THEN [cagr |-> [last_year_count  |-> window[n].count,
                         first_year_count |-> window[1].count,
                         years_diff       |-> window[n].year - window[1].year]]
         ELSE <<>>)

\* df[mask]: the rows of t whose index is in keep, in their order.
BooleanIndex(t, keep) ==
    LET idx == SetToSeq(keep)
    IN  [columns |-> t.columns,
         len     |-> Len(idx),
         data    |-> [c \in Range(t.columns) |-> [k \in 1..Len(idx) |-> t.data[c][idx[k]]]]]

\* The values a range slider between lo and hi is left at: each handle at one
\* of the two ends.
slider_values(lo, hi) == {v \in {lo, hi} \X {lo, hi} : v[1] <= v[2]}

\* The makes the multiselect offers.
all_makes(t) == Range(t.data["Make"])

\* The values the three filter widgets can hold.
filter_selections(t, b) ==
    [year_range     : slider_values(b.min_year, b.max_year),
     selected_makes : SUBSET all_makes(t),
     electric_range : slider_values(b.min_range, b.max_range)]

\* filtered_df: the rows of df within the year range, of a selected make and
\* within the electric range.
apply_filters(t, sel) ==
    BooleanIndex(t, {i \in 1..t.len :
        /\ t.data["Model Year"][i].num >= sel.year_range[1]
        /\ t.data["Model Year"][i].num <= sel.year_range[2]
        /\ t.data["Make"][i] \in sel.selected_makes
        /\ t.data["Electric Range"][i].num >= sel.electric_range[1]
        /\ t.data["Electric Range"][i].num <= sel.electric_range[2]})

-----------------------------------------------------------------------------
(* The input files *)

\* Bounds of the inputs.
MaxRows == 3        \* rows of the tables whose cells vary freely

MaxGeoRows == 6     \* rows of the tables whose location labels vary

MaxYearRows == 6    \* rows of the tables with one record per model year

PointText(lon, lat) == PointLiteral \o lon \o <<" ">> \o lat \o <<")">>

\* The cell of row i of column c when nothing else is said.
DefaultCell(c, i) ==
    CASE c \in {"Make", "Vehicle Make"}   -> Str("Tesla")
      [] c \in {"Model", "Vehicle Model"} -> Str("Model 3")
      [] c \in {"Model Year", "Vehicle Year"} -> Whole(2019 + i)
      [] HasRange(c)                      -> Whole(200 + 10 * i)
      [] HasTypeOrCategory(c)             -> Str("Battery Electric Vehicle (BEV)")
      [] c \in {"CAFV Eligibility", "Clean Alternative Fuel Vehicle Eligibility",
                "CAFV Eligibility Status"}
                                          -> Str("Eligible")
      [] c = "County"                     -> Str("King")
      [] c = "City"                       -> Str("Seattle")
      [] c = "State"                      -> Str("WA")
      [] c = "Postal Code"                -> Whole(98101)
      [] c \in {"Vehicle Location", "Location"}
                                          -> Txt(PointText(<<"-", "1", "2", "2", ".", "5">>,
                                                           <<"2", "1">>))

\* The table with the columns cols and n rows whose cells are Cell(c, i).
Table(cols, n, Cell(_, _)) ==
    [columns |-> cols,
     len     |-> n,
     data    |-> [c \in Range(cols) |-> [i \in 1..n |-> Cell(c, i)]]]

\* The names of pool that are in S, in the order of pool.
Pick(pool, S) == SelectSeq(pool, LAMBDA c : c \in S)

Reverse(s) == [i \in 1..Len(s) |-> s[Len(s) + 1 - i]]

\* All sequences of length n over the set S.
Seqs(S, n) == [1..n -> S]

\* Files whose required columns are there under the canonical name, under the
\* alternate name, under both or not at all.
RequiredPool ==
    <<"Vehicle Make", "Make", "Vehicle Model", "Model", "Vehicle Year", "Model Year">>

RequiredSources ==
    {Table(Pick(RequiredPool, S), n, DefaultCell) :
        S \in (SUBSET Range(RequiredPool)) \ {{}}, n \in 0..(MaxRows - 1)}

\* The optional columns, by the step of the pipeline that looks for them.
RangeGroup == <<"Range Miles", "EPA range", "Electric Vehicle Range", "Electric Range">>

TypeGroup == <<"Vehicle Category", "Vehicle Type", "Electric Vehicle Type">>

CafvGroup ==
    <<"CAFV Eligibility Status", "Clean Alternative Fuel Vehicle Eligibility",
      "CAFV Eligibility">>

LocationGroup == <<"Vehicle Location", "Location">>

Groups == {RangeGroup, TypeGroup, CafvGroup, geo_columns, LocationGroup}

CanonicalOptional ==
    <<"Electric Range", "Electric Vehicle Type", "CAFV Eligibility",
      "County", "City", "State", "Postal Code">>

\* The default cells, with the first row of every optional column left empty
\* when holes is set.
HoleyCell(holes, c, i) ==
    IF holes /\ i = 1 /\ c \notin Range(required_columns) THEN NaN ELSE DefaultCell(c, i)

\* Files with the required columns and any choice of the columns of one
\* group, the other groups being absent or present under their canonical
\* names, in either column order.
OptionalSources ==
    {Table(IF backwards THEN Reverse(cols) ELSE cols, n,
           LAMBDA c, i : HoleyCell(holes, c, i)) :
        cols \in UNION {{required_columns \o Pick(g, S) \o rest :
                            S \in SUBSET Range(g),
                            rest \in {<<>>, SelectSeq(CanonicalOptional,
                                                      LAMBDA c : c \notin Range(g))}} :
                        g \in Groups},
        backwards \in BOOLEAN, holes \in BOOLEAN, n \in 0..(MaxRows - 1)}

\* Files whose Model Year cells, or whose range cells, are numbers, text that
\* is no number, or empty.
YearCells == {Whole(2018), Whole(2021), Str("unknown"), NaN}

RangeCells == {Whole(150), Whole(215), Str("n/a"), NaN}

NumericSources ==
    UNION {
        {Table(required_columns \o rc, n,
               LAMBDA c, i : IF c = "Model Year" THEN ys[i] ELSE DefaultCell(c, i)) :
            ys \in Seqs(YearCells, n), rc \in {<<>>, <<"Electric Range">>}}
        \cup
        {Table(required_columns \o <<rc>>, n,
               LAMBDA c, i : IF c = rc THEN rs[i] ELSE DefaultCell(c, i)) :
            rs \in Seqs(RangeCells, n), rc \in {"Electric Range", "Range Miles"}}
        : n \in 0..MaxRows}

\* Files whose Make and Model cells vary.
MakeCells == {Str("Tesla"), Str("Nissan"), NaN}

ModelCells == {Str("Model 3"), Str("Leaf")}

MakeSources ==
    UNION {
        {Table(required_columns \o <<"Electric Range">>, n,
               LAMBDA c, i : IF c = "Make" THEN ms[i][1]
                             ELSE IF c = "Model" THEN ms[i][2]
                             ELSE DefaultCell(c, i)) :
            ms \in Seqs(MakeCells \X ModelCells, n)}
        : n \in 0..MaxRows}

\* Files with one location column whose labels vary: label 0 is an empty cell,
\* and a label that has not been used yet is always the next one.
MaxOf(p) == IF Len(p) = 0 THEN 0 ELSE CHOOSE m \in Range(p) : \A x \in Range(p) : x <= m

RECURSIVE Patterns(_, _)
Patterns(n, lowest) ==
    IF n = 0 THEN {<<>>}
    ELSE UNION {{Append(p, k) : k \in lowest..(MaxOf(p) + 1)} : p \in Patterns(n - 1, lowest)}

Label(k) == IF k = 0 THEN NaN ELSE Str("L" \o ToString(k))

LabelSources ==
    UNION {
        {Table(required_columns \o <<"Electric Range", col>>, n,
               LAMBDA c, i : IF c = col THEN Label(p[i]) ELSE DefaultCell(c, i)) :
            p \in Patterns(n, 1), col \in {"County", "City", "State"}}
        : n \in 0..MaxGeoRows}
    \cup
    UNION {
        {Table(required_columns \o <<"Electric Range", "County">>, n,
               LAMBDA c, i : IF c = "County" THEN Label(p[i]) ELSE DefaultCell(c, i)) :
            p \in Patterns(n, 0)}
        : n \in 0..(MaxRows + 1)}

\* Files with a Vehicle Location column: one row holding any of the geometry
\* texts put together from the parts below, or a few rows of sample texts;
\* with a Location column beside it (then no column is renamed) or without.
Prefixes == {<<>>, <<"M", "U", "L", "T", "I">>}

Literals == {PointLiteral, <<"P", "O", "I", "N", "T", "(">>}

NumberTexts ==
    {<<"1">>, <<"-", "1", ".", "5">>, <<"1", "2", ".", "5", "0">>, <<"2", ".">>,
     <<".", "5">>, <<"-">>}

Separators == {<<" ">>, <<",">>, <<" ", " ">>}

Suffixes == {<<")">>, <<>>, <<" ", "5", ")">>}

GeometryTexts ==
    {pre \o lit \o lon \o sep \o lat \o suf :
        pre \in Prefixes, lit \in Literals, lon \in NumberTexts, sep \in Separators,
        lat \in NumberTexts, suf \in Suffixes}

SampleCells ==
    {NaN,
     Txt(PointText(<<"-", "1", "2", "2", ".", "5">>, <<"2", "1", ".", "5">>)),
     Txt(<<"n", "o", "t", " ", "a", " ", "p", "o", "i", "n", "t">>)}

GeometrySources ==
    {Table(required_columns \o <<"Electric Range">> \o locs, 1,
           LAMBDA c, i : IF c = "Vehicle Location" THEN Txt(g) ELSE DefaultCell(c, i)) :
        g \in GeometryTexts, locs \in {LocationGroup}}
    \cup
    UNION {
        {Table(required_columns \o <<"Electric Range">> \o locs, n,
               LAMBDA c, i : IF c = "Vehicle Location" THEN gs[i] ELSE DefaultCell(c, i)) :
            gs \in Seqs(SampleCells, n), locs \in {LocationGroup, <<"Vehicle Location">>}}
        : n \in 1..MaxRows}

\* Files whose Model Year cells are any of a few years, and files with one
\* record for each year of a set of years of YearPool.
YearPool == 2015..2022

FewYears == {2015, 2016, 2021, 2022}

YearSources ==
    UNION {
        {Table(required_columns \o <<"Electric Range">>, n,
               LAMBDA c, i : IF c = "Model Year" THEN Whole(ys[i]) ELSE DefaultCell(c, i)) :
            ys \in Seqs(FewYears, n)}
        : n \in 1..MaxRows}
    \cup
    {Table(required_columns \o <<"Electric Range">>, Cardinality(Y),
           LAMBDA c, i : IF c = "Model Year" THEN Whole(SetToSeq(Y)[i])
                         ELSE DefaultCell(c, i)) :
        Y \in {Z \in SUBSET YearPool : Cardinality(Z) <= MaxYearRows}}

Sources == RequiredSources \cup OptionalSources \cup NumericSources \cup MakeSources
           \cup LabelSources \cup GeometrySources \cup YearSources

-----------------------------------------------------------------------------
(* The run of main.py *)

Init ==
    /\ source \in Sources
    /\ df = None
    /\ error = None
    /\ warnings = <<>>
    /\ summary = None
    /\ heatmap = None
    /\ bounds = None
    /\ selection = None
    /\ filtered_df = None
    /\ insights = None
    /\ pc = "start"

\* df = load_and_process_data(data_path); an exception is reported with
\* st.error and the run stops.
LoadAndProcessData ==
    /\ pc = "start"
    /\ LET r == load_and_process_data(source)
       IN  /\ df' = r.df
           /\ error' = r.error
           /\ warnings' = warnings \o r.warnings
           /\ pc' = IF r.raised THEN "stopped" ELSE "loaded"
    /\ UNCHANGED <<source, summary, heatmap, bounds, selection, filtered_df, insights>>

\* summary_stats = generate_summary_stats(df), in the same try block.
GenerateSummaryStats ==
    /\ pc = "loaded"
    /\ LET r == generate_summary_stats(df)
       IN  /\ summary' = r.summary
           /\ df' = r.df
           /\ error' = r.error
           /\ pc' = IF r.raised THEN "stopped" ELSE "summarized"
    /\ UNCHANGED <<source, warnings, heatmap, bounds, selection, filtered_df, insights>>

\* The sliders of the sidebar; an exception here is not caught.
SidebarBounds ==
    /\ pc = "summarized"
    /\ LET r == slider_bounds(df)
       IN  /\ bounds' = r.bounds
           /\ error' = r.error
           /\ pc' = IF r.raised THEN "crashed" ELSE "sidebar"
    /\ UNCHANGED <<source, df, warnings, summary, heatmap, selection, filtered_df, insights>>

\* filtered_df = df[...] with the values the three filter widgets hold in this
\* run.
ApplyFilters ==
    /\ pc = "sidebar"
    /\ \E sel \in filter_selections(df, bounds) :
          /\ selection' = sel
          /\ filtered_df' = apply_filters(df, sel)
    /\ pc' = "filtered"
    /\ UNCHANGED <<source, df, error, warnings, summary, heatmap, bounds, insights>>

\* The "EV Adoption Trends" tab.
AdoptionInsights ==
    /\ pc = "filtered"
    /\ insights' = adoption_insights(df, bounds.max_year)
    /\ pc' = "done"
    /\ UNCHANGED <<source, df, error, warnings, summary, heatmap, bounds, selection,
                   filtered_df>>

\* A change of a filter widget: Streamlit runs main.py again from the top, and
\* the widgets hold what the user has set.
FilterChange ==
    /\ pc = "done"
    /\ df' = None
    /\ error' = None
    /\ warnings' = <<>>
    /\ summary' = None
    /\ bounds' = None
    /\ selection' = None
    /\ filtered_df' = None
    /\ insights' = None
    /\ pc' = "start"
    /\ UNCHANGED <<source, heatmap>>

\* plot_interactive_geographic_heatmap applied to the processed table (main.py
\* imports the function and does not call it: this is another caller's use of
\* the table).
PlotInteractiveGeographicHeatmap ==
    /\ pc = "loaded"
    /\ heatmap' = plot_interactive_geographic_heatmap(df)
    /\ pc' = "mapped"
    /\ UNCHANGED <<source, df, error, warnings, summary, bounds, selection, filtered_df,
                   insights>>

Next ==
    \/ LoadAndProcessData
    \/ GenerateSummaryStats
    \/ SidebarBounds
    \/ ApplyFilters
    \/ AdoptionInsights
    \/ FilterChange
    \/ PlotInteractiveGeographicHeatmap

Spec == Init /\ [][Next]_vars

-----------------------------------------------------------------------------
(* Properties: load_and_process_data *)

\* The alternate name column_mapping gives for a required column.
AlternateOf(col) ==
    CASE col = "Make" -> "Vehicle Make"
      [] col = "Model" -> "Vehicle Model"
      [] col = "Model Year" -> "Vehicle Year"

\* The required column col is in the file under neither of its names.
Lacks(file, col) ==
    col \notin Range(file.columns) /\ AlternateOf(col) \notin Range(file.columns)

LacksRequired(file) == \E col \in Range(required_columns) : Lacks(file, col)

\* The message that names exactly the required columns the file lacks.
ExpectedMessage(file) ==
    LET mk == Lacks(file, "Make")
        md == Lacks(file, "Model")
        yr == Lacks(file, "Model Year")
    IN  "Missing required columns: "
        \o (IF mk THEN "Make" ELSE "")
        \o (IF mk /\ (md \/ yr) THEN ", " ELSE "")
        \o (IF md THEN "Model" ELSE "")
        \o (IF md /\ yr THEN ", " ELSE "")
        \o (IF yr THEN "Model Year" ELSE "")

Loaded == pc # "start"

\* C1: when the file lacks a required column under both of its names,
\* load_and_process_data raises a ValueError whose message names every required
\* column that is lacking and no other, and no table is returned.
C1_MissingRequiredColumnsRaise ==
    (Loaded /\ LacksRequired(source)) =>
        /\ pc = "stopped"
        /\ df = None
        /\ error # None
        /\ error.type = "ValueError"
        /\ Range(error.missing) = {col \in Range(required_columns) : Lacks(source, col)}
        /\ Len(error.missing) = Cardinality(Range(error.missing))
        /\ error.message = ExpectedMessage(source)

\* A file with Make under its alternate name and neither Model nor Model Year:
\* the error names Model and Model Year.
C1_Witness ==
    /\ pc = "stopped"
    /\ "Vehicle Make" \in Range(source.columns)
    /\ "Make" \notin Range(source.columns)
    /\ error # None
    /\ error.message = "Missing required columns: Model, Model Year"

\* The column of the file that becomes the column col of the returned table,
\* or "" when col is created by load_and_process_data.
OriginOf(file, col) ==
    LET has(c) == c \in Range(file.columns)
        first(Test(_)) == LET m == SelectSeq(file.columns, Test)
                          IN  IF Len(m) > 0 THEN m[1] ELSE ""
    IN  CASE col = "Model Year" ->
                IF has("Model Year") THEN "Model Year" ELSE "Vehicle Year"
          [] col = "Electric Range" ->
                IF has("Electric Range") THEN "Electric Range"
                ELSE IF has("Electric Vehicle Range") THEN "Electric Vehicle Range"
                ELSE first(LAMBDA c : c \in {"Range Miles", "EPA range"})
          [] col = "Electric Vehicle Type" ->
                IF has("Electric Vehicle Type") THEN "Electric Vehicle Type"
                ELSE first(LAMBDA c : c \in {"Vehicle Type", "Vehicle Category"})
          [] col = "CAFV Eligibility" ->
                IF has("CAFV Eligibility") THEN "CAFV Eligibility"
                ELSE IF has("Clean Alternative Fuel Vehicle Eligibility")
                THEN "Clean Alternative Fuel Vehicle Eligibility"
                ELSE ""
          [] OTHER -> IF has(col) THEN col ELSE ""

\* The cells of the file behind the column col of the returned table: all
\* missing when the column is created.
OriginCells(file, col) ==
    IF OriginOf(file, col) = "" THEN [i \in 1..file.len |-> NaN]
    ELSE file.data[OriginOf(file, col)]

\* The rows of cells that hold a number.
NumberRows(cells) == {i \in 1..Len(cells) : DOMAIN cells[i] = {"num"}}

\* m (in halves) is the median of the numbers among cells: the middle one in
\* ascending order, or the mean of the two middle ones. The k-th in ascending
\* order is a number with fewer than k numbers below it and at least k numbers
\* at or below it.
IsMedianOf(m, cells) ==
    LET rows == NumberRows(cells)
        n    == Cardinality(rows)
        kth(x, k) == /\ Cardinality({i \in rows : cells[i].num < x}) < k
                     /\ k <= Cardinality({i \in rows : cells[i].num <= x})
    IN  /\ n > 0
        /\ \E i, j \in rows :
              /\ kth(cells[i].num, (n + 1) \div 2)
              /\ kth(cells[j].num, n \div 2 + 1)
              /\ 2 * m = cells[i].num + cells[j].num

\* The column col of the returned table has no missing cell, and every cell
\* that is no number in the file holds the median of the numbers of its column.
Imputed(col) ==
    LET from == OriginCells(source, col)
        to   == df.data[col]
    IN  /\ \A i \in 1..Len(to) : ~isna(to[i])
        /\ \A i \in 1..Len(to) :
              i \notin NumberRows(from) => (IsNum(to[i]) /\ IsMedianOf(to[i].num, from))

\* C2: after load_and_process_data returns, Model Year and Electric Range have
\* no missing cell, and every cell that was missing or unparseable in the file
\* holds the median of the numbers of its column.
C2_NoMissingAfterImputation ==
    (df # None) => (Imputed("Model Year") /\ Imputed("Electric Range"))

\* C2 without the columns that have no number at all: when the column has a
\* number, it has no missing cell afterwards and the filled cells hold the median.
C2_ImputedWhereANumberExists ==
    (df # None) =>
        \A col \in {"Model Year", "Electric Range"} :
            NumberRows(OriginCells(source, col)) # {} => Imputed(col)

\* C3: when the file has every required column under one of its names,
\* load_and_process_data does not raise and returns a table with as many rows as
\* the file has, in every column.
C3_RowsPreserved ==
    (Loaded /\ ~LacksRequired(source)) =>
        /\ df # None
        /\ df.len = source.len
        /\ \A c \in Range(df.columns) : Len(df.data[c]) = source.len
        /\ (df.len > 0 <=> source.len > 0)

\* A file of two rows with an empty cell in its range column, loaded.
C3_Witness ==
    /\ pc = "loaded"
    /\ source.len = 2
    /\ "Electric Range" \in Range(source.columns)
    /\ isna(source.data["Electric Range"][1])
    /\ df.len = 2

-----------------------------------------------------------------------------
(* Properties: generate_summary_stats *)

\* C4: generate_summary_stats never raises: a run that got a table from
\* load_and_process_data is not stopped by an exception of generate_summary_stats.
C4_SummaryNeverRaises == (pc = "stopped") => (df = None)

Present(cells) == {cells[i] : i \in {j \in 1..Len(cells) : ~isna(cells[j])}}

Occurrences(cells, v) == Cardinality({i \in 1..Len(cells) : cells[i] = v})

\* a <= b for two results that are numbers (no comparison with NaN holds).
NumLe(a, b) == DOMAIN a = {"num"} /\ DOMAIN b = {"num"} /\ a.num <= b.num

\* What C6 says of the dict s returned for the table t.
SummaryValuesOf(s, t) ==
    LET makes == t.data["Make"]
        years == t.data["Model Year"]
    IN  /\ s.total_evs = t.len
        /\ s.unique_makes = Cardinality(Present(makes))
        /\ s.unique_models = Cardinality(Present(t.data["Model"]))
        /\ s.most_common_make \in Present(makes)
        /\ \A v \in Present(makes) :
              Occurrences(makes, v) <= Occurrences(makes, s.most_common_make)
        /\ s.most_common_make_count = Occurrences(makes, s.most_common_make)
        /\ NumLe(s.min_year, s.median_year)
        /\ NumLe(s.median_year, s.max_year)
        /\ s.min_year \in Present(years)
        /\ s.max_year \in Present(years)
        /\ \A y \in Present(years) : NumLe(s.min_year, y) /\ NumLe(y, s.max_year)
        /\ IsMedianOf(s.median_year.num, years)

\* C6: for a table with records, the dict holds the number of records, the
\* numbers of distinct makes and models, a make of maximal count with that
\* count, and min_year <= median_year <= max_year, the minimum, median and
\* maximum of Model Year.
C6_SummaryValues ==
    (summary # None /\ df.len > 0) => SummaryValuesOf(summary, df)

\* C6 for the tables whose Model Year column holds a number.
C6_SummaryValuesWithAYear ==
    (summary # None /\ df.len > 0 /\ Present(df.data["Model Year"]) # {}) =>
        SummaryValuesOf(summary, df)

\* The breakdown top (a sequence of [value, count]) of the column cells: the
\* min(5, number of distinct values) most frequent values with their counts,
\* by descending count.
IsTopBreakdown(top, cells) ==
    LET distinct == Present(cells)
        n        == Cardinality(distinct)
        shown    == {top[i].value : i \in 1..Len(top)}
    IN  /\ Len(top) = IF n < TopN THEN n ELSE TopN
        /\ Cardinality(shown) = Len(top)
        /\ shown \subseteq distinct
        /\ \A i \in 1..Len(top) : top[i].count = Occurrences(cells, top[i].value)
        /\ \A i, j \in 1..Len(top) : i < j => top[i].count >= top[j].count
        /\ \A v \in distinct \ shown :
              \A i \in 1..Len(top) : Occurrences(cells, v) <= top[i].count

HasBreakdown(s, key, t, col) ==
    key \in DOMAIN s /\ IsTopBreakdown(s[key], t.data[col])

\* C7 as claimed: top_counties, top_cities and top_states are all three the
\* breakdowns of their columns.
C7_TopFiveAll ==
    (summary # None) =>
        /\ HasBreakdown(summary, "top_counties", df, "County")
        /\ HasBreakdown(summary, "top_cities", df, "City")
        /\ HasBreakdown(summary, "top_states", df, "State")

\* C7, amended: top_counties and top_cities are the breakdowns of their
\* columns; top_states is the breakdown of State when State has at least two
\* distinct values, and is not in the dict otherwise.
C7_TopFive ==
    (summary # None) =>
        /\ HasBreakdown(summary, "top_counties", df, "County")
        /\ HasBreakdown(summary, "top_cities", df, "City")
        /\ IF Cardinality(Present(df.data["State"])) >= 2
           THEN HasBreakdown(summary, "top_states", df, "State")
           ELSE "top_states" \notin DOMAIN summary

\* Six distinct counties, five of them in top_counties.
C7_Witness ==
    /\ summary # None
    /\ Cardinality(Present(df.data["County"])) = TopN + 1
    /\ Len(summary.top_counties) = TopN

-----------------------------------------------------------------------------
(* Properties: coordinate extraction *)

\* w is a number as the pattern reads it: an optional minus, one digit or
\* more, and optionally a point followed by any digits.
IsNumberText(w) ==
    LET body == IF Len(w) > 0 /\ w[1] = "-" THEN Tail(w) ELSE w
    IN  /\ Len(body) > 0
        /\ body[1] \in Digits
        /\ \A k \in 1..Len(body) : body[k] \in Digits \cup {"."}
        /\ Cardinality({k \in 1..Len(body) : body[k] = "."}) <= 1

\* From position p the text reads POINT (, a number up to position e1 - 1, one
\* space, and a number up to position e2.
ReadsPointAt(cs, p, e1, e2) ==
    LET s1 == p + Len(PointLiteral)
    IN  /\ s1 <= e1 /\ e1 < e2 /\ e2 <= Len(cs)
        /\ SubSeq(cs, p, s1 - 1) = PointLiteral
        /\ IsNumberText(SubSeq(cs, s1, e1 - 1))
        /\ cs[e1] = " "
        /\ IsNumberText(SubSeq(cs, e1 + 1, e2))

\* The text has the form POINT (<lon> <lat>) and nothing else.
HasPointForm(cs) ==
    \E e1 \in 1..Len(cs) :
        ReadsPointAt(cs, 1, e1, Len(cs) - 1) /\ cs[Len(cs)] = ")"

\* The text holds POINT (<lon> <lat> somewhere.
HoldsPoint(cs) ==
    \E p, e1, e2 \in 1..Len(cs) : ReadsPointAt(cs, p, e1, e2)

RECURSIVE Pow10(_)
Pow10(n) == IF n = 0 THEN 1 ELSE 10 * Pow10(n - 1)

\* The float f is the number the text w writes.
IsValueOf(f, w) ==
    LET neg  == w[1] = "-"
        body == IF neg THEN Tail(w) ELSE w
        ds   == SelectSeq(body, LAMBDA ch : ch \in Digits)
        frac == Cardinality({k \in 1..Len(body) :
                                \E d \in 1..Len(body) : body[d] = "." /\ d < k})
        n    == SumSeq([k \in 1..Len(ds) |-> DigitValue(ds[k]) * Pow10(Len(ds) - k)])
    IN  /\ f.digits * Pow10(frac) = n * Pow10(f.scale)
        /\ f.negative = (neg /\ n # 0)
        /\ (f.scale = 0 \/ f.digits % 10 # 0)

\* The pair is read from the leftmost place where the text holds a point: the
\* longitude is the first number, the latitude the longest number after the space.
IsPairOf(pair, cs) ==
    \E p, e1, e2 \in 1..Len(cs) :
        /\ ReadsPointAt(cs, p, e1, e2)
        /\ \A q, d1, d2 \in 1..Len(cs) :
              ReadsPointAt(cs, q, d1, d2) => (p <= q /\ (q = p => d2 <= e2))
        /\ IsValueOf(pair.lon, SubSeq(cs, p + Len(PointLiteral), e1 - 1))
        /\ IsValueOf(pair.lat, SubSeq(cs, e1 + 1, e2))

\* The geometry cells of the table given to the heatmap.
Locations ==
    IF HasColumn(df, "Vehicle Location") THEN df.data["Vehicle Location"] ELSE <<>>

\* The coordinate pairs the heatmap was drawn from.
Coordinates ==
    IF heatmap.chart = "density_mapbox" THEN heatmap.coords_df ELSE <<>>

\* The heatmap read one pair from each record whose geometry is present and
\* satisfies Test, in the order of the records, and from no other record; it
\* is the fallback chart when there is no pair; and the table keeps its records.
ExtractedWhere(Test(_)) ==
    LET rows == {i \in 1..Len(Locations) : ~isna(Locations[i]) /\ Test(Locations[i].txt)}
        kth(k) == CHOOSE i \in rows : Cardinality({j \in rows : j < i}) = k - 1
    IN  /\ Len(Coordinates) = Cardinality(rows)
        /\ \A k \in 1..Len(Coordinates) : IsPairOf(Coordinates[k], Locations[kth(k)].txt)
        /\ (Len(Coordinates) = 0 <=> heatmap.chart = "geographical_distribution")
        /\ df = load_and_process_data(source).df

\* C8 as claimed: a pair is read from a record if and only if its geometry is
\* present and has the form POINT (<lon> <lat>).
C8_PairIffPointForm ==
    (pc = "mapped") => ExtractedWhere(HasPointForm)

\* C8, amended: a pair is read from a record if and only if its geometry is
\* present and holds, anywhere in the text, POINT (<lon> <lat> (the closing
\* parenthesis and whatever surrounds the match are not looked at).
C8_PairIffHoldsPoint ==
    (pc = "mapped") => ExtractedWhere(HoldsPoint)

\* A heatmap drawn from a geometry that holds a point and has not the form (it
\* starts with MULTI).
C8_Witness ==
    /\ pc = "mapped"
    /\ heatmap.chart = "density_mapbox"
    /\ Len(Locations) = 1
    /\ ~isna(Locations[1])
    /\ Locations[1].txt[1] = "M"

-----------------------------------------------------------------------------
(* Properties: the 5-Year CAGR *)

\* The distinct model years of the table (in halves).
Years == {c.num : c \in Present(df.data["Model Year"])}

\* The years of the trailing window: not more than 5 years before the last year.
Window ==
    LET last == CHOOSE y \in Years : \A z \in Years : z <= y
    IN  {y \in Years : last - y <= 2 * CagrYears}

FirstYearCount ==
    LET first == CHOOSE y \in Window : \A z \in Window : y <= z
    IN  Occurrences(df.data["Model Year"], Num(first))

\* C9: the tab holds a CAGR if and only if the trailing window holds two
\* distinct model years or more and the first of them has a count that is not
\* zero; a run that does not reach the tab computes none.
C9_CagrIffTwoYears ==
    /\ (pc = "done") =>
          ("cagr" \in DOMAIN insights <=> (Cardinality(Window) >= 2 /\ FirstYearCount # 0))
    /\ (pc # "done") => (insights = None)

\* A table with several model years of which only the last is in the window:
\* no CAGR.
C9_Witness ==
    /\ pc = "done"
    /\ Cardinality(Years) >= 2
    /\ "cagr" \notin DOMAIN insights

-----------------------------------------------------------------------------
(* Properties: the columns load_and_process_data ensures *)

EnsuredColumns ==
    {"Electric Vehicle Type", "CAFV Eligibility", "County", "City", "State", "Postal Code"}

IsText(c) == DOMAIN c = {"str"}

\* C10 as claimed: the six columns exist, every cell of them is a string, and a
\* column the file does not have holds "Unknown" in every record.
C10_AlwaysStrings ==
    (df # None) =>
        \A col \in EnsuredColumns :
            /\ HasColumn(df, col)
            /\ \A i \in 1..df.len : IsText(df.data[col][i])
            /\ col \notin Range(source.columns) =>
                  \A i \in 1..df.len : df.data[col][i] = Str("Unknown")

\* C10, amended: the six columns exist; a column that is taken from no column
\* of the file holds "Unknown" in every record; a column taken from the file
\* (under its own name, or renamed: the alternate CAFV name, the first column
\* named as a type or category) keeps the cells of the file as they are.
C10_EnsuredColumns ==
    (df # None) =>
        \A col \in EnsuredColumns :
            /\ HasColumn(df, col)
            /\ Len(df.data[col]) = source.len
            /\ IF OriginOf(source, col) = ""
               THEN \A i \in 1..df.len : df.data[col][i] = Str("Unknown")
               ELSE df.data[col] = source.data[OriginOf(source, col)]

\* A file with a County column whose first cell is empty and without a City column.
C10_Witness ==
    /\ pc = "loaded"
    /\ "County" \in Range(source.columns)
    /\ "City" \notin Range(source.columns)
    /\ df.len > 0
    /\ isna(df.data["County"][1])
    /\ df.data["City"][1] = Str("Unknown")

-----------------------------------------------------------------------------
(* C11 *)

\* C11: in every run the filters have been applied in, the summary mapping of
\* the run is the result of generate_summary_stats on the filtered table.
C11_SummaryOfFilteredTable ==
    (pc \in {"filtered", "done"}) =>
        summary = generate_summary_stats(filtered_df).summary

\* What the run holds instead: the summary of the table as it was loaded,
\* whatever the filters keep.
C11_SummaryOfLoadedTable ==
    (pc \in {"summarized", "sidebar", "filtered", "done"}) =>
        summary = generate_summary_stats(df).summary

\* A run whose filters exclude a record while others stay.
C11_FilterExcludesRecords ==
    /\ pc = "done"
    /\ filtered_df.len > 0
    /\ filtered_df.len < df.len


-----------------------------------------------------------------------------
(* C12 *)

\* dist is the full distribution of cells: one entry for each distinct value
\* that is not missing, with the number of its occurrences.
IsDistribution(dist, cells) ==
    /\ {dist[i].value : i \in 1..Len(dist)} = Present(cells)
    /\ Len(dist) = Cardinality(Present(cells))
    /\ \A i \in 1..Len(dist) : dist[i].count = Occurrences(cells, dist[i].value)

SummaryKeys ==
    {"ev_type_distribution", "cafv_eligibility_distribution",
     "top_counties", "top_cities", "top_states"}

\* C12 as claimed: the dict holds all five keys.
C12_AllFiveKeys == (summary # None) => SummaryKeys \subseteq DOMAIN summary

\* C12, amended: the dict holds the full distributions of vehicle type and of
\* eligibility and the keys top_counties and top_cities; it holds top_states
\* exactly when the State column has at least two distinct values.
C12_KeysOfTheSummary ==
    (summary # None) =>
        /\ (SummaryKeys \ {"top_states"}) \subseteq DOMAIN summary
        /\ IsDistribution(summary.ev_type_distribution, df.data["Electric Vehicle Type"])
        /\ IsDistribution(summary.cafv_eligibility_distribution, df.data["CAFV Eligibility"])
        /\ Len(summary.top_counties) <= TopN
        /\ Len(summary.top_cities) <= TopN
        /\ ("top_states" \in DOMAIN summary) <=> (Cardinality(Present(df.data["State"])) >= 2)

\* A summary of several records of one state: no top_states, and the vehicle
\* types counted.
C12_Witness ==
    /\ summary # None
    /\ df.len >= 2
    /\ "top_states" \notin DOMAIN summary
    /\ Len(summary.ev_type_distribution) >= 1

\* A summary of records of several states.
C12_WitnessStates ==
    /\ summary # None
    /\ "top_states" \in DOMAIN summary
    /\ Len(summary.top_states) >= 2


-----------------------------------------------------------------------------
(* C13 *)

\* The alternate names of the mapping, and the canonical name of each.
Alternates == {column_mapping[k][1] : k \in {j \in 1..Len(column_mapping) :
                                              column_mapping[j][1] # column_mapping[j][2]}}

CanonicalOf(c) ==
    column_mapping[CHOOSE k \in 1..Len(column_mapping) : column_mapping[k][1] = c][2]

\* The names the later steps of the pipeline may rename, and the columns whose
\* cells they rewrite.
FallbackNames == {c \in Range(source.columns) : HasRange(c) \/ HasTypeOrCategory(c)}
                 \ {"Electric Range", "Electric Vehicle Type"}

RewrittenColumns == {"Make", "Model", "Model Year", "Electric Range"}

\* C13: in the table returned, a column of the file under an alternate name of
\* the mapping has the canonical name exactly when the file has no column of
\* the canonical name, and then no column has the alternate name; when the file
\* has both, both keep their names; a column outside the mapping keeps its
\* name; every column keeps its place, and its cells unless a later step
\* rewrites them.
C13_Reconciliation ==
    (df # None) =>
        /\ Len(df.columns) >= Len(source.columns)
        /\ \A i \in 1..Len(source.columns) :
              LET c == source.columns[i]
              IN  /\ (c \in Alternates /\ CanonicalOf(c) \notin Range(source.columns)) =>
                        /\ df.columns[i] = CanonicalOf(c)
                        /\ c \notin Range(df.columns)
                  /\ (c \in Alternates /\ CanonicalOf(c) \in Range(source.columns)) =>
                        df.columns[i] = c
                  /\ (c \notin Alternates /\ c \notin FallbackNames) => df.columns[i] = c
                  /\ (df.columns[i] \notin RewrittenColumns) =>
                        df.data[df.columns[i]] = source.data[c]

\* A file with one column under its alternate name only, and another under
\* both names.
C13_Witness ==
    /\ df # None
    /\ \E c \in Range(source.columns) \cap Alternates :
          CanonicalOf(c) \notin Range(source.columns) /\ CanonicalOf(c) \in Range(df.columns)
    /\ \E c \in Range(source.columns) \cap Alternates :
          CanonicalOf(c) \in Range(source.columns) /\ c \in Range(df.columns)


-----------------------------------------------------------------------------
(* C14 *)

\* The file has no Electric Range column after reconciliation: none under the
\* canonical name and none under the alternate name.
NoRangeColumn ==
    Range(source.columns) \cap {"Electric Range", "Electric Vehicle Range"} = {}

\* The places of the columns of the file whose name contains "range".
RangePlaces == {i \in 1..Len(source.columns) : HasRange(source.columns[i])}

FirstRangePlace == CHOOSE i \in RangePlaces : \A j \in RangePlaces : i <= j

\* C14: when the file has no Electric Range column after reconciliation, the
\* first column of the file named as a range is Electric Range in the table
\* returned, every other column named as a range keeps its name, and no
\* warning about the range is emitted; when the file has no such column, the
\* table is returned with a new column Electric Range that is missing in
\* every record, and the warning about the range is emitted.
C14_RangeFallback ==
    (Loaded /\ ~LacksRequired(source) /\ NoRangeColumn) =>
        /\ df # None
        /\ IF RangePlaces # {}
           THEN /\ df.columns[FirstRangePlace] = "Electric Range"
                /\ \A i \in 1..Len(source.columns) :
                      (i # FirstRangePlace /\ source.columns[i] \notin Alternates
                       /\ ~HasTypeOrCategory(source.columns[i]))
                          => df.columns[i] = source.columns[i]
                /\ Len(df.columns) >= Len(source.columns)
                /\ \A k \in 1..Len(warnings) : warnings[k] # RangeWarning
           ELSE /\ \E i \in (Len(source.columns) + 1)..Len(df.columns) :
                      df.columns[i] = "Electric Range"
                /\ \A i \in 1..Len(source.columns) :
                      (source.columns[i] \notin Alternates
                       /\ ~HasTypeOrCategory(source.columns[i]))
                          => df.columns[i] = source.columns[i]
                /\ \A i \in 1..df.len : isna(df.data["Electric Range"][i])
                /\ Cardinality({k \in 1..Len(warnings) : warnings[k] = RangeWarning}) = 1

\* A file with two columns named as a range, the first of them in the second
\* place of the pool: it is the one that became Electric Range.
C14_Witness ==
    /\ df # None
    /\ NoRangeColumn
    /\ Cardinality(RangePlaces) = 2
    /\ source.columns[FirstRangePlace] = "EPA range"
    /\ df.len > 0
    /\ df.data["Electric Range"] = [i \in 1..df.len |-> source.data["EPA range"][i]]

\* A file with records and no column named as a range.
C14_WitnessSynthesized ==
    /\ df # None
    /\ RangePlaces = {}
    /\ df.len > 0
    /\ RangeWarning \in Range(warnings)


-----------------------------------------------------------------------------
(* C15 *)

\* The number of times the warning w has been emitted.
Emitted(w) == Cardinality({k \in 1..Len(warnings) : warnings[k] = w})

\* The columns load_and_process_data has to create for this file.
RangeSynthesized == NoRangeColumn /\ RangePlaces = {}

TypeSynthesized == \A c \in Range(source.columns) : ~HasTypeOrCategory(c)

CafvSynthesized ==
    Range(source.columns)
        \cap {"CAFV Eligibility", "Clean Alternative Fuel Vehicle Eligibility"} = {}

Once(created) == IF created THEN 1 ELSE 0

\* C15: a run that returns a table has emitted the warning of Electric Range,
\* of Electric Vehicle Type and of CAFV Eligibility once when it created the
\* column and not at all when the column was there or was renamed, and no
\* other warning; CAFV Eligibility is created, with "Unknown" in every
\* record, whenever the file has it under neither name of the mapping,
\* whatever the other column names.
C15_Warnings ==
    (df # None) =>
        /\ Emitted(RangeWarning) = Once(RangeSynthesized)
        /\ Emitted(TypeWarning) = Once(TypeSynthesized)
        /\ Emitted(CafvWarning) = Once(CafvSynthesized)
        /\ Len(warnings) = Once(RangeSynthesized) + Once(TypeSynthesized)
                           + Once(CafvSynthesized)
        /\ CafvSynthesized =>
              /\ \A i \in 1..df.len : df.data["CAFV Eligibility"][i] = Str("Unknown")
              /\ \A i \in 1..Len(source.columns) : df.columns[i] # "CAFV Eligibility"

\* A file with the range, the type and a column whose name contains the
\* canonical eligibility name: one warning, about the eligibility, and the
\* column keeps its name.
C15_Witness ==
    /\ df # None
    /\ df.len > 0
    /\ "CAFV Eligibility Status" \in Range(source.columns)
    /\ "CAFV Eligibility Status" \in Range(df.columns)
    /\ warnings = <<CafvWarning>>

\* A file with the required columns only: three warnings.
C15_WitnessThree ==
    /\ df # None
    /\ df.len > 0
    /\ Len(warnings) = 3


-----------------------------------------------------------------------------
(* C16 *)

\* The number of records of the model year y.
CountOf(y) == Occurrences(df.data["Model Year"], Num(y))

\* The years of the table before y, and the last of them.
YearsBefore(y) == {z \in Years : z < y}

PrecedingYear(y) == CHOOSE p \in YearsBefore(y) : \A z \in YearsBefore(y) : z <= p

\* g is the percentage change from the count before to the count after.
IsGrowth(g, before, after) ==
    /\ ~isna(g)
    /\ g.den > 0
    /\ g.num * before = 100 * (after - before) * g.den

\* C16: the yearly-count series has one row for each model year of the table,
\* in ascending order, with the number of its records; the growth of the
\* first year is missing, and the growth of any other year is the percentage
\* change from the count of the last year before it that is in the table.
C16_YearOverYear ==
    (pc = "done") =>
        LET yc == insights.yearly_counts
        IN  /\ {yc[k].year : k \in 1..Len(yc)} = Years
            /\ \A j, k \in 1..Len(yc) : j < k => yc[j].year < yc[k].year
            /\ \A k \in 1..Len(yc) :
                  /\ yc[k].count = CountOf(yc[k].year)
                  /\ IF YearsBefore(yc[k].year) = {}
                     THEN isna(yc[k].yoy)
                     ELSE IsGrowth(yc[k].yoy, CountOf(PrecedingYear(yc[k].year)),
                                   CountOf(yc[k].year))

\* A series with a gap: a year whose calendar predecessor has no record, with a
\* growth that is not zero.
C16_Witness ==
    /\ pc = "done"
    /\ \E k \in 2..Len(insights.yearly_counts) :
          LET r == insights.yearly_counts[k]
          IN  /\ r.year - 2 \notin Years
              /\ ~isna(r.yoy)
              /\ r.yoy.num # 0


-----------------------------------------------------------------------------
(* C17 *)

LastYear == CHOOSE y \in Years : \A z \in Years : z <= y

\* The years the rate was computed over: from the year years_diff before the
\* last year on.
CagrWindow == {y \in Years : y >= LastYear - insights.cagr.years_diff}

HasCagr == pc = "done" /\ "cagr" \in DOMAIN insights

\* C17 as claimed: the years the rate is computed over are at most 5.
C17_AtMostFiveYears == HasCagr => Cardinality(CagrWindow) <= CagrYears

\* C17, amended: the rate is computed over the years of the series that are
\* not more than 5 years before the last one, which are at most 6 whole
\* years; it compares the count of the last year with the count of the first
\* of these years over the years between them.
C17_TrailingWindow ==
    HasCagr =>
        LET first == CHOOSE y \in Window : \A z \in Window : y <= z
        IN  /\ insights.cagr.years_diff = LastYear - first
            /\ insights.cagr.years_diff <= 2 * CagrYears
            /\ insights.cagr.last_year_count = CountOf(LastYear)
            /\ insights.cagr.first_year_count = CountOf(first)
            /\ CagrWindow = Window
            /\ Cardinality({y \in CagrWindow : y % 2 = 0}) <= CagrYears + 1

\* Six consecutive model years, all of them in the window.
C17_Witness ==
    /\ HasCagr
    /\ Cardinality(CagrWindow) = CagrYears + 1
    /\ insights.cagr.years_diff = 2 * CagrYears


-----------------------------------------------------------------------------
(* C18 *)

\* The file has a column Vehicle Location and no column Location.
OnlyVehicleLocation ==
    /\ "Vehicle Location" \in Range(source.columns)
    /\ "Location" \notin Range(source.columns)

\* C18: for a file with a column Vehicle Location and no column Location, the
\* table returned has the geometry under Location and no column Vehicle
\* Location, and the heatmap drawn from it is the fallback chart, with no
\* coordinate pair.
C18_RenamedLocationFallsBack ==
    (OnlyVehicleLocation /\ df # None) =>
        /\ "Location" \in Range(df.columns)
        /\ "Vehicle Location" \notin Range(df.columns)
        /\ df.data["Location"] = source.data["Vehicle Location"]
        /\ (pc = "mapped") =>
              /\ heatmap.chart = "geographical_distribution"
              /\ "coords_df" \notin DOMAIN heatmap

\* Such a file whose first geometry holds a point: the heatmap is the fallback
\* chart all the same.
C18_Witness ==
    /\ pc = "mapped"
    /\ OnlyVehicleLocation
    /\ source.len > 0
    /\ ~isna(source.data["Vehicle Location"][1])
    /\ HoldsPoint(source.data["Vehicle Location"][1].txt)
    /\ heatmap.chart = "geographical_distribution"


=============================================================================
